---- MODULE Spec2Model ----
(***************************************************************************)
(* Level-of-detail chunk streaming of McArthur-Alford/planets:             *)
(*   - the octree spatial index            (src/src/octree.rs)             *)
(*   - the ECS chunk lifecycle             (src/src/chunk_storage.rs)      *)
(*                                                                         *)
(* Numbers.  Positions are fixed-point vectors: one world unit (the root   *)
(* half-width 1.0 of Body::new) is RootBounds grid units, so that the      *)
(* halving of `bounds` and the sign tests of the octree are exact.  The    *)
(* camera translation is kept in units of 0.005 and the field of view in   *)
(* units of 0.00005 rad, so that the two epsilon tests of calculate_povs   *)
(* distinguish "equal", "within epsilon" and "moved".                      *)
(*                                                                         *)
(* Option<T> is modelled as a sequence of length 0 (None) or 1 (Some).     *)
(***************************************************************************)
EXTENDS Integers, Sequences, FiniteSets, TLC

VARIABLES
    octree,       \* the octree (Octree, root node) / Body.octree
    crashed,      \* the process died (unbounded recursion of insert, todo!())
    nInserted,    \* number of points handed to insert so far
    call,         \* the last octree query made and its result
    chunkRefs,    \* ChunkRefs of the body: index -> Active(e) | Cleanup(e)
    chunks,       \* the chunk entities of the world: entity -> components
    storage,      \* ChunkStorage of the body: index -> ChunkData
    pov,          \* the POV component: <<position, fov>>
    camera,       \* the camera's Transform.translation and Projection fov
    pc,           \* the system of the FixedUpdate chain that runs next
    nextEntity,   \* the next fresh entity id
    needed,       \* needed_indices of the latest recompute
    gone,         \* entities despawned by the latest despawn_chunks
    manager_pov,               \* ChunkManager.pov
    mesh_handles,              \* keys of ChunkManager.mesh_handles
    mesh_handle_unload_times,  \* ChunkManager.mesh_handle_unload_times
    mesh_entities,             \* keys of ChunkManager.mesh_entities
    active_requests,           \* ChunkManager.active_requests
    active_chunks,             \* ChunkManager.active_chunks
    manager_cells,             \* ChunkManager.cells
    sender,                    \* requests in the channel ChunkManager.sender
    receiver,                  \* responses in the channel ChunkManager.receiver
    workers,                   \* ChunkManager.workers: the worker threads
    panics                     \* number of worker threads that have died

managerVars == <<manager_pov, mesh_handles, mesh_handle_unload_times,
                 mesh_entities, active_requests, active_chunks, manager_cells,
                 sender, receiver, workers, panics>>

vars == <<octree, crashed, nInserted, call, chunkRefs, chunks, storage,
          pov, camera, pc, nextEntity, needed, gone, managerVars>>

lifecycleVars == <<chunkRefs, chunks, storage, pov, camera, pc, nextEntity,
                   needed, gone>>

-----------------------------------------------------------------------------
(* Bounds of the model *)

\* capacity handed to Octree::new (16 in Body::new; small here so that
\* nodes split with a handful of points)
Capacity == 1

\* number of points the octree specification inserts
MaxPoints == 4

\* depth to which the call stack admits insert's recursion into children
StackDepth == 3

\* longest identifier handed to get_cells_for_index
MaxPathLen == 2

\* number of chunk entities the lifecycle specification may spawn
MaxEntities == 9

\* number of worker threads of the channel-based manager (NUM_WORKERS is
\* 16 in the source; small here)
NUM_WORKERS == 2

\* number of worker threads that may die while building
MaxPanics == 1

\* number of cells above which a build simplifies the local geometry to
\* one cell (256 in generate_meshes; small here so that both kinds of
\* build occur)
SimplifyAbove == 1

-----------------------------------------------------------------------------
(* Program constants *)

\* bounds = 1.0 of Body::new, in grid units
RootBounds == 8

\* number of child slots of a node
NumChildren == 8

-----------------------------------------------------------------------------
(* Option, vectors *)

None == <<>>
Some(x) == <<x>>
IsSome(o) == o # <<>>
Unwrap(o) == o[1]

Zero3 == <<0, 0, 0>>

\* f32::signum on a difference of positions: +0.0 has signum 1.0
Signum(x) == IF x >= 0 THEN 1 ELSE -1

Clamp(x, lo, hi) == IF x < lo THEN lo ELSE IF x > hi THEN hi ELSE x

DistanceSquared(a, b) ==
    (a[1] - b[1]) * (a[1] - b[1]) + (a[2] - b[2]) * (a[2] - b[2])
        + (a[3] - b[3]) * (a[3] - b[3])

RECURSIVE Concat(_)
Concat(ss) == IF ss = <<>> THEN <<>> ELSE Head(ss) \o Concat(Tail(ss))

Range(s) == {s[i] : i \in 1..Len(s)}

IsPrefix(p, q) == Len(p) <= Len(q) /\ SubSeq(q, 1, Len(p)) = p
IsStrictPrefix(p, q) == Len(p) < Len(q) /\ SubSeq(q, 1, Len(p)) = p

-----------------------------------------------------------------------------
(* Octree *)

Point(position, value) == [position |-> position, value |-> value]

\* Octree::new
OctreeNew(capacity, center, bounds, depth, octree_index) ==
    [children     |-> [i \in 1..NumChildren |-> None],
     center       |-> center,
     points       |-> Some(<<>>),
     capacity     |-> capacity,
     bounds       |-> bounds,
     height       |-> 0,
     depth        |-> depth,
     octree_index |-> octree_index]

\* Octree::pos_to_child; the result is the 0-based slot
pos_to_child(node, pos) ==
    LET diff == [k \in 1..3 |-> (Signum(pos[k] - node.center[k]) + 1) \div 2]
    IN  diff[1] + 2 * diff[2] + 4 * diff[3]

\* children[i] of the code is children[i + 1] here
Child(node, i) == node.children[i + 1]

ChildCenter(node, pos) ==
    [k \in 1..3 |->
        node.center[k] + Signum(pos[k] - node.center[k]) * (node.bounds \div 2)]

\* a trailing loop that stops at the first present child
UpdateHeightFirstChild(node) ==
    LET present == {j \in 1..NumChildren : IsSome(node.children[j])}
        first == CHOOSE i \in present : \A j \in present : i <= j
        h == Unwrap(node.children[first]).height + 1
    IN  IF present = {} THEN node
        ELSE [node EXCEPT !.height = IF h > @ THEN h ELSE @]

\* the trailing loop of insert: height = max(height, child.height + 1)
UpdateHeight(node) ==
    LET hs == {node.height} \cup
              {Unwrap(node.children[i]).height + 1 :
                   i \in {j \in 1..NumChildren : IsSome(node.children[j])}}
    IN  [node EXCEPT !.height = CHOOSE h \in hs : \A g \in hs : g <= h]

\* `octree_index.clone()` followed by `push(index as u8)`, taken as the
\* selector byte alone
ChildIndexSelectorOnly(node, index) == <<index>>

\* the identifier of the child created in slot `index`
ChildIndex(node, index) == Append(node.octree_index, index)

\* a take that leaves an empty vector behind, not None
TakePointsLeavesEmpty(node) == [node EXCEPT !.points = Some(<<>>)]

\* `std::mem::take(&mut self.points)`: the node is left with points = None
TakePoints(node) == [node EXCEPT !.points = None]

\* Octree::insert.  The result is Some(node after the call), or None when
\* the recursion into children does not end within StackDepth levels (the
\* call then never returns: the stack overflows).
RECURSIVE insert(_, _), Redistribute(_, _, _)
insert(node, point) ==
    IF IsSome(node.points) /\ Len(Unwrap(node.points)) <= node.capacity
    THEN Some([node EXCEPT !.points = Some(Append(Unwrap(node.points), point))])
    ELSE
      LET index == pos_to_child(node, point.position)
          created ==
            IF Child(node, index) = None
            THEN [node EXCEPT !.children[index + 1] =
                    Some(OctreeNew(node.capacity,
                                   ChildCenter(node, point.position),
                                   node.bounds \div 2,
                                   node.depth + 1,
                                   ChildIndex(node, index)))]
            ELSE node
      IN
      IF Unwrap(Child(created, index)).depth > StackDepth THEN None
      ELSE
        LET sub == insert(Unwrap(Child(created, index)), point) IN
        IF sub = None THEN None
        ELSE
          LET stored == [created EXCEPT !.children[index + 1] = sub]
              spread ==
                IF IsSome(stored.points)
                THEN Redistribute(TakePoints(stored),
                                  Unwrap(stored.points), 1)
                ELSE Some(stored)
          IN  IF spread = None THEN None
              ELSE Some(UpdateHeight(Unwrap(spread)))

\* a redistribution that re-inserts the first of the taken points only
RedistributeFirstOnly(node, points, i) ==
    IF points = <<>> THEN Some(node) ELSE insert(node, points[1])

\* `for point in points { self.insert(point); }`
Redistribute(node, points, i) ==
    IF i > Len(points) THEN Some(node)
    ELSE LET r == insert(node, points[i]) IN
         IF r = None THEN None ELSE Redistribute(Unwrap(r), points, i + 1)

\* Octree::cells
RECURSIVE cells(_)
cells(node) ==
    IF IsSome(node.points)
    THEN [i \in 1..Len(Unwrap(node.points)) |-> Unwrap(node.points)[i].value]
    ELSE Concat([i \in 1..NumChildren |->
                   IF IsSome(node.children[i])
                   THEN cells(Unwrap(node.children[i])) ELSE <<>>])

\* The two comparisons of get_chunk_indices, on exact integers.  With d2 the
\* squared distance in grid units, dist = d2^1.5 / RootBounds^3 and
\* multiplier = bounds / (RootBounds * max(height, 1)); both sides are
\* squared to clear the root.
\*   dist > 0.9   (a distance of one world unit or more is decided at once)
Culled(d2) ==
    IF d2 >= RootBounds * RootBounds THEN TRUE
    ELSE 100 * d2 * d2 * d2 > 81 * RootBounds ^ 6

\*   dist >= (desired_height + 0.1) * multiplier
LoopCondition(d2, node, desired_height) ==
    LET h == IF node.height > 1 THEN node.height ELSE 1
        k == 10 * desired_height + 1
    IN  100 * h * h * d2 * d2 * d2
            >= k * k * node.bounds * node.bounds * RootBounds ^ 4

\* `while dist >= ... { desired_height += 1; }`
RECURSIVE DesiredHeight(_, _, _)
DesiredHeight(d2, node, desired_height) ==
    IF LoopCondition(d2, node, desired_height)
    THEN DesiredHeight(d2, node, desired_height + 1)
    ELSE desired_height

\* the decision of a visited node: emit its own identifier or recurse
EmitsSelf(desired_height, node) == desired_height >= node.height

\* a resolver that emits a node's identifier and descends all the same
RECURSIVE get_chunk_indices_both(_, _)
get_chunk_indices_both(node, target) ==
    LET projected == [k \in 1..3 |->
                        Clamp(target[k], node.center[k] - node.bounds,
                              node.center[k] + node.bounds)]
        d2 == DistanceSquared(projected, target)
    IN  IF Culled(d2) THEN <<>>
        ELSE (IF EmitsSelf(DesiredHeight(d2, node, 0), node)
              THEN <<node.octree_index>> ELSE <<>>)
             \o Concat([i \in 1..NumChildren |->
                          IF IsSome(node.children[i])
                          THEN get_chunk_indices_both(Unwrap(node.children[i]),
                                                      target)
                          ELSE <<>>])

\* Octree::get_chunk_indices.  The loop has no effect but desired_height,
\* which a culled node does not use, so the cull test is evaluated first.
RECURSIVE get_chunk_indices(_, _)
get_chunk_indices(node, target) ==
    LET projected == [k \in 1..3 |->
                        Clamp(target[k], node.center[k] - node.bounds,
                              node.center[k] + node.bounds)]
        d2 == DistanceSquared(projected, target)
    IN  IF Culled(d2) THEN <<>>
        ELSE IF EmitsSelf(DesiredHeight(d2, node, 0), node)
        THEN <<node.octree_index>>
        ELSE Concat([i \in 1..NumChildren |->
                       IF IsSome(node.children[i])
                       THEN get_chunk_indices(Unwrap(node.children[i]), target)
                       ELSE <<>>])

\* results of get_cells_for_index: Some(cells), None, or a panic
Found(cs) == [tag |-> "Some", cells |-> cs]
NotFound == [tag |-> "None", cells |-> <<>>]
Panic == [tag |-> "Panic", cells |-> <<>>]

\* `self.children[next_child]`: indexing the array of 8 slots panics for
\* an index that is out of bounds
ChildLookup(node, next_child) ==
    IF next_child >= NumChildren THEN Panic
    ELSE IF IsSome(Child(node, next_child)) THEN Found(<<>>) ELSE NotFound

\* Octree::get_cells_for_index
RECURSIVE get_cells_for_index(_, _)
get_cells_for_index(node, index_path) ==
    IF node.octree_index = index_path THEN Found(cells(node))
    ELSE IF IsPrefix(node.octree_index, index_path)
            /\ Len(index_path) > Len(node.octree_index)
    THEN LET next_child == index_path[Len(node.octree_index) + 1]
             slot == ChildLookup(node, next_child)
         IN  IF slot.tag = "Some"
             THEN get_cells_for_index(Unwrap(Child(node, next_child)), index_path)
             ELSE slot
    ELSE NotFound

\* the node an identifier names, if it is realized
RECURSIVE NodeAt(_, _)
NodeAt(node, path) ==
    IF node.octree_index = path THEN Some(node)
    ELSE IF IsStrictPrefix(node.octree_index, path)
            /\ path[Len(node.octree_index) + 1] < NumChildren
            /\ IsSome(Child(node, path[Len(node.octree_index) + 1]))
    THEN NodeAt(Unwrap(Child(node, path[Len(node.octree_index) + 1])), path)
    ELSE None

\* the nodes of a tree: the node and the nodes of its children
RECURSIVE Nodes(_)
Nodes(node) ==
    {node} \cup UNION {Nodes(Unwrap(node.children[i])) :
                          i \in {j \in 1..NumChildren : IsSome(node.children[j])}}

-----------------------------------------------------------------------------
(* Inputs of the octree specification *)

\* positions of inserted points (grid units): two octants hold one position
\* each, one octant holds two positions that its children separate
Positions == {<<4, 4, 4>>, <<4, 0, 4>>, <<-8, 0, 0>>, <<-4, -4, -4>>}

\* targets handed to get_chunk_indices: on the unit sphere, inside the
\* root cube, and outside of it (update_pov passes a target of length
\* 1 + fov / 5)
Targets == {<<8, 0, 0>>, <<0, -8, 0>>, <<6, -5, 0>>, <<0, 0, 8>>,
            <<4, 4, 4>>, <<0, 0, 9>>}

\* bytes of identifiers handed to get_cells_for_index: the first and the
\* last child slot, and the first byte that is no child slot
Bytes == {0, 7, 8}

RECURSIVE SeqsUpTo(_, _)
SeqsUpTo(S, n) ==
    IF n = 0 THEN {<<>>}
    ELSE LET shorter == SeqsUpTo(S, n - 1)
         IN  shorter \cup {Append(s, b) : s \in shorter, b \in S}

Paths == SeqsUpTo(Bytes, MaxPathLen)

NoCall == [op |-> "none", arg |-> <<>>, result |-> <<>>]

-----------------------------------------------------------------------------
(* Initial state of the ECS world (Startup: setup_camera, setup_bodies) *)

\* camera translation, units of 0.005: Transform::from_xyz(0, 0, 1) placed
\* at radius * 2 = 64 by position_camera
CameraStart == <<0, 0, 12800>>

\* PerspectiveProjection::default().fov = pi / 4, units of 0.00005 rad
FovStart == 15708

EmptyMap == [i \in {} |-> None]

InitLifecycle ==
    /\ chunkRefs = EmptyMap
    /\ chunks = EmptyMap
    /\ storage = EmptyMap
    /\ pov = [pos |-> Zero3, fov |-> 0]
    /\ camera = [pos |-> CameraStart, fov |-> FovStart]
    /\ pc = "calculate_povs"
    /\ nextEntity = 1
    /\ needed = {}
    /\ gone = {}

\* a worker thread blocked in `request_receiver.recv()`
WorkerIdle == [state |-> "recv", index |-> <<>>]

\* ChunkManager::spawn_workers: n threads, each with clones of the request
\* receiver (ChunkManager.sender) and of the response sender
\* (ChunkManager.receiver), each blocked in recv
spawn_workers(n) == [i \in 1..n |-> WorkerIdle]

\* ChunkManager::new: empty maps and sets, pov = Vec3::ZERO, both channels
\* empty, NUM_WORKERS workers spawned
InitManager ==
    /\ manager_pov = Zero3
    /\ mesh_handles = {}
    /\ mesh_handle_unload_times = EmptyMap
    /\ mesh_entities = {}
    /\ active_requests = {}
    /\ active_chunks = {}
    /\ manager_cells = EmptyMap
    /\ sender = <<>>
    /\ receiver = <<>>
    /\ workers = spawn_workers(NUM_WORKERS)
    /\ panics = 0

-----------------------------------------------------------------------------
(* The octree specification: a tree grown by insert and queried *)

InitOctree ==
    /\ octree = OctreeNew(Capacity, Zero3, RootBounds, 0, <<>>)
    /\ crashed = FALSE
    /\ nInserted = 0
    /\ call = NoCall
    /\ InitLifecycle
    /\ InitManager

\* octree.insert(Point { position, value: cell_index })
Insert(position) ==
    /\ ~crashed
    /\ nInserted < MaxPoints
    /\ LET r == insert(octree, Point(position, nInserted))
       IN  IF r = None
           THEN crashed' = TRUE /\ octree' = octree
           ELSE crashed' = FALSE /\ octree' = Unwrap(r)
    /\ nInserted' = nInserted + 1
    /\ call' = [op |-> "insert", arg |-> position, result |-> <<>>]
    /\ UNCHANGED <<lifecycleVars, managerVars>>

\* octree.get_chunk_indices(target)
GetChunkIndices(target) ==
    /\ ~crashed
    /\ call' = [op |-> "get_chunk_indices", arg |-> target,
                result |-> get_chunk_indices(octree, target)]
    /\ UNCHANGED <<octree, crashed, nInserted>>
    /\ UNCHANGED <<lifecycleVars, managerVars>>

\* octree.get_cells_for_index(&index_path)
GetCellsForIndex(index_path) ==
    /\ ~crashed
    /\ call' = [op |-> "get_cells_for_index", arg |-> index_path,
                result |-> get_cells_for_index(octree, index_path)]
    /\ UNCHANGED <<octree, crashed, nInserted>>
    /\ UNCHANGED <<lifecycleVars, managerVars>>

NextOctree ==
    \/ \E position \in Positions : Insert(position)
    \/ \E target \in Targets : GetChunkIndices(target)
    \/ \E index_path \in Paths : GetCellsForIndex(index_path)

SpecOctree == InitOctree /\ [][NextOctree]_vars

-----------------------------------------------------------------------------
(* The body and the camera of the lifecycle specification *)

\* geometry.cell_normals of the body: six cells, four of them in octant 7
\* (two in each of its children 5 and 7), one in octant 6, one in octant 0
CellNormals == << <<5, 5, 4>>, <<4, 5, 5>>, <<6, 1, 5>>, <<5, 2, 6>>,
                  <<-8, 0, 0>>, <<-5, -5, -4>> >>

\* the loop of Body::new
RECURSIVE InsertAll(_, _, _)
InsertAll(node, normals, i) ==
    IF i > Len(normals) THEN node
    ELSE InsertAll(Unwrap(insert(node, Point(normals[i], i - 1))), normals, i + 1)

\* Body::new(geometry).octree
BodyOctree ==
    InsertAll(OctreeNew(Capacity, Zero3, RootBounds, 0, <<>>), CellNormals, 1)

Cells == 0..(Len(CellNormals) - 1)

\* floor of the square root, by bisection on [lo, hi)
RECURSIVE ISqrtIn(_, _, _)
ISqrtIn(n, lo, hi) ==
    IF hi - lo <= 1 THEN lo
    ELSE LET mid == (lo + hi) \div 2
         IN  IF mid * mid <= n THEN ISqrtIn(n, mid, hi) ELSE ISqrtIn(n, lo, mid)

RoundDiv(a, b) ==
    IF a >= 0 THEN (2 * a + b) \div (2 * b) ELSE -((2 * (-a) + b) \div (2 * b))

\* Vec3::normalize, the result in grid units (rounded to the grid)
Normalize(v) ==
    LET len == ISqrtIn(DistanceSquared(v, Zero3), 0, 32768)
    IN  [k \in 1..3 |-> RoundDiv(RootBounds * v[k], len)]

\* what the camera systems may leave in Transform / Projection between two
\* cycles (translation in units of 0.005, fov in units of 0.00005 rad):
\*   above +z; the same moved by less than epsilon; the same with another
\*   field of view; over the edge of octant 7; below -y
CameraSamples ==
    {[pos |-> <<0, 0, 12800>>, fov |-> 15708],
     [pos |-> <<0, 1, 12800>>, fov |-> 15709],
     [pos |-> <<0, 0, 12800>>, fov |-> 15720],
     [pos |-> <<9830, -8192, 0>>, fov |-> 15708],
     [pos |-> <<0, -12800, 0>>, fov |-> 15708]}

\* geometry.cell_normals of a second body: five cells in octant 7, two in
\* its child 7 and three in its child 5, which splits once more, so that
\* the octree has height 3
DeepCellNormals ==
    << <<5, 5, 4>>, <<4, 5, 5>>, <<6, 1, 5>>, <<5, 2, 6>>, <<7, 1, 5>> >>

DeepOctree ==
    InsertAll(OctreeNew(Capacity, Zero3, RootBounds, 0, <<>>),
              DeepCellNormals, 1)

\* camera placements around the second body: the start above +z (needed
\* [7,5], [7,7]), away from octant 7 (needed [7]), and over the corner of
\* octant 7 (needed [7,7], [7,5,1], [7,5,6])
DeepCameraSamples ==
    {[pos |-> <<0, 0, 12800>>, fov |-> 15708],
     [pos |-> <<0, -9600, 8000>>, fov |-> 15708],
     [pos |-> <<8000, 8000, 8000>>, fov |-> 15708]}

\* the POV test of the channel-based manager (update_pov): equality
WithinEpsilonExact(p, cam) == p.pos = cam.pos /\ p.fov = cam.fov

\* the early return of calculate_povs:
\*   pov.0.distance_squared(translation) < 0.0001 && (pov.1 - fov).abs() < 0.0001
\* 0.0001 is 4 squared units of 0.005, and 2 units of 0.00005
WithinEpsilon(p, cam) ==
    /\ DistanceSquared(p.pos, cam.pos) < 4
    /\ (IF p.fov >= cam.fov THEN p.fov - cam.fov ELSE cam.fov - p.fov) < 2

-----------------------------------------------------------------------------
(* Chunk entities and the per-body maps *)

\* an entry for a needed index that is written as Cleanup
ActiveWrittenAsCleanup(e) == [tag |-> "Cleanup", entity |-> e]

Active(e) == [tag |-> "Active", entity |-> e]

\* an entry for an obsolete index that is left Active
CleanupLeftActive(e) == [tag |-> "Active", entity |-> e]

Cleanup(e) == [tag |-> "Cleanup", entity |-> e]

\* commands.spawn((Chunk { body, index }, NeedsMesh, Name));
\* `cancelled` records that a Task of the chunk was dropped before
\* poll_mesh_tasks took its result
NewChunk(index) ==
    [index            |-> index,
     NeedsMesh        |-> TRUE,
     GeneratingMesh   |-> None,
     AwaitingDeletion |-> None,
     Mesh3d           |-> FALSE,
     ChunkCells       |-> None,
     cancelled        |-> FALSE]

RemoveKey(f, k) == [i \in DOMAIN f \ {k} |-> f[i]]

\* Ord of Vec<u8> (the order of BTreeSet<ChunkIndex>)
LexLess(a, b) ==
    \/ IsStrictPrefix(a, b)
    \/ \E i \in 1..(IF Len(a) < Len(b) THEN Len(a) ELSE Len(b)) :
          a[i] < b[i] /\ SubSeq(a, 1, i - 1) = SubSeq(b, 1, i - 1)

RECURSIVE SortedSeq(_)
SortedSeq(S) ==
    IF S = {} THEN <<>>
    ELSE LET m == CHOOSE x \in S : \A y \in S \ {x} : LexLess(x, y)
         IN  <<m>> \o SortedSeq(S \ {m})

\* `for i in (0..index.len()).rev()` with `index[0..i]`: the strict
\* prefixes of an index, longest first
RECURSIVE ParentsOf(_)
ParentsOf(index) ==
    IF Len(index) = 0 THEN <<>>
    ELSE LET parent == SubSeq(index, 1, Len(index) - 1)
         IN  <<parent>> \o ParentsOf(parent)

\* a second loop that takes the direct parent of an obsolete index without
\* asking whether it is needed
DirectParentUnchecked(index, needed_indices) ==
    IF Len(index) > 0 THEN <<SubSeq(index, 1, Len(index) - 1)>> ELSE <<>>

\* a second loop that looks at the direct parent of an obsolete index only
DirectNeededParent(index, needed_indices) ==
    IF Len(index) > 0 /\ SubSeq(index, 1, Len(index) - 1) \in needed_indices
    THEN <<SubSeq(index, 1, Len(index) - 1)>>
    ELSE <<>>

\* the second loop over `replacing`: the first needed parent, then break
NearestNeededParent(index, needed_indices) ==
    LET hits == SelectSeq(ParentsOf(index), LAMBDA q : q \in needed_indices)
    IN  IF hits = <<>> THEN <<>> ELSE <<Head(hits)>>

\* a first loop that looks at the direct parent of a needed index only
ReplacingDirectParentOnly(index, needed_indices) ==
    SelectSeq(SortedSeq(needed_indices),
              LAMBDA n : IsStrictPrefix(index, n) /\ Len(n) = Len(index) + 1)
        \o NearestNeededParent(index, needed_indices)

\* replacing[index] for an obsolete index once both loops have run:
\* the needed indices below it in the order of the needed set, then the
\* nearest needed index above it
Replacing(index, needed_indices) ==
    SelectSeq(SortedSeq(needed_indices), LAMBDA n : IsStrictPrefix(index, n))
        \o NearestNeededParent(index, needed_indices)

-----------------------------------------------------------------------------
(* calculate_povs *)

\* body.octree.get_chunk_indices(..) collected into a BTreeSet, for each
\* body and camera sample; the octree of src/src/octree.rs takes the
\* target alone.  Body.octree is immutable (an Arc<Octree> built by
\* Body::new), so the results are tabulated once.
NeededTable ==
    [body \in {BodyOctree, DeepOctree} |->
        [sample \in CameraSamples \cup DeepCameraSamples |->
            Range(get_chunk_indices(body, Normalize(sample.pos)))]]

\* needed_indices of calculate_povs for the camera it samples
NeededIndices(cam) == NeededTable[octree][cam]

\* the needed indices that have no ChunkRefs entry, in the order of the
\* needed loop: the k-th of them is spawned as entity next + k - 1
ToSpawn(refs, needed_indices) == SortedSeq(needed_indices \ DOMAIN refs)

SpawnedEntity(refs, next, needed_indices, index) ==
    LET order == ToSpawn(refs, needed_indices)
    IN  next - 1 + CHOOSE k \in 1..Len(order) : order[k] = index

\* the commands for a needed index whose entry is Cleanup:
\* .remove::<AwaitingDeletion>().remove::<GeneratingMesh>().insert(NeedsMesh)
\* (removing GeneratingMesh drops the Task, which cancels it)
ReinstateKeepsAwaiting(c) ==
    [c EXCEPT !.GeneratingMesh = None, !.NeedsMesh = TRUE,
              !.cancelled = @ \/ IsSome(c.GeneratingMesh)]

Reinstate(c) ==
    [c EXCEPT !.AwaitingDeletion = None,
              !.GeneratingMesh = None,
              !.NeedsMesh = TRUE,
              !.cancelled = @ \/ IsSome(c.GeneratingMesh)]

\* the commands for an obsolete index, Active or Cleanup alike:
\* .insert(AwaitingDeletion(..)).remove::<NeedsMesh>().remove::<GeneratingMesh>()
RetireAccumulates(c, dependents) ==
    [c EXCEPT !.AwaitingDeletion =
                  Some((IF IsSome(@) THEN Unwrap(@) ELSE <<>>) \o dependents),
              !.NeedsMesh = FALSE,
              !.GeneratingMesh = None,
              !.cancelled = @ \/ IsSome(c.GeneratingMesh)]

\* a retirement that leaves NeedsMesh on the chunk
RetireKeepsNeedsMesh(c, dependents) ==
    [c EXCEPT !.AwaitingDeletion = Some(dependents),
              !.GeneratingMesh = None,
              !.cancelled = @ \/ IsSome(c.GeneratingMesh)]

\* a retirement that leaves the Task on the chunk
RetireKeepsTask(c, dependents) ==
    [c EXCEPT !.AwaitingDeletion = Some(dependents),
              !.NeedsMesh = FALSE]

Retire(c, dependents) ==
    [c EXCEPT !.AwaitingDeletion = Some(dependents),
              !.NeedsMesh = FALSE,
              !.GeneratingMesh = None,
              !.cancelled = @ \/ IsSome(c.GeneratingMesh)]

\* chunk_refs.0 after the loop over the needed indices: each of them has
\* an Active entry, for the entity it had or for the one spawned for it
AfterNeededLoop(refs, next, needed_indices) ==
    [index \in DOMAIN refs \cup needed_indices |->
        IF index \in needed_indices
        THEN Active(IF index \in DOMAIN refs THEN refs[index].entity
                    ELSE SpawnedEntity(refs, next, needed_indices, index))
        ELSE refs[index]]

\* an obsolete set that also takes in the parents of the needed indices
ObsoleteIndicesWithParents(refs, needed_indices) ==
    (DOMAIN refs \cup {p \in UNION {Range(ParentsOf(n)) : n \in needed_indices} :
                          TRUE}) \ needed_indices

\* obsolete_indices: existing_set.difference(&needed_indices), with
\* existing_set the keys before the loop over the needed indices
ObsoleteIndices(refs, needed_indices) == DOMAIN refs \ needed_indices

\* `chunk_refs.0.get(&index).cloned()` of the loop over the obsolete
\* indices: the entry, or None
ObsoleteLookup(after, index) ==
    IF index \in DOMAIN after THEN after[index]
    ELSE [tag |-> "None", entity |-> 0]

\* the loop over the obsolete indices takes its arm `None => todo!()`
TodoReached(refs, next, needed_indices) ==
    \E index \in ObsoleteIndices(refs, needed_indices) :
        ObsoleteLookup(AfterNeededLoop(refs, next, needed_indices),
                       index).tag = "None"

\* the recompute of calculate_povs (the body of its loop over the bodies)
\* with the commands it queued applied: the ChunkRefs, the chunk entities
\* and the next fresh entity afterwards
Recompute(refs, ents, next, needed_indices) ==
    LET existing_set == DOMAIN refs
        after == AfterNeededLoop(refs, next, needed_indices)
        obsolete_indices == ObsoleteIndices(refs, needed_indices)
        spawned == needed_indices \ existing_set
        entityOf(index) == after[index].entity
        newRefs ==
            [index \in DOMAIN after |->
                IF index \in obsolete_indices
                THEN Cleanup(ObsoleteLookup(after, index).entity)
                ELSE after[index]]
        reinstated ==
            {refs[index].entity :
                index \in {i \in needed_indices \cap existing_set :
                              refs[i].tag = "Cleanup"}}
        retired(e) == {index \in obsolete_indices :
                          ObsoleteLookup(after, index).entity = e}
        newEnts ==
            [e \in DOMAIN ents \cup {entityOf(index) : index \in spawned} |->
                IF e \notin DOMAIN ents
                THEN NewChunk(CHOOSE index \in spawned : entityOf(index) = e)
                ELSE IF e \in reinstated THEN Reinstate(ents[e])
                ELSE IF retired(e) # {}
                THEN Retire(ents[e],
                            Replacing(CHOOSE index \in retired(e) : TRUE,
                                      needed_indices))
                ELSE ents[e]]
    IN  [chunkRefs  |-> newRefs,
         chunks     |-> newEnts,
         nextEntity |-> next + Cardinality(spawned)]

\* the camera systems write Transform and Projection; only calculate_povs
\* reads them, so the write is taken at the start of a cycle
\* (the camera stays where it is once the recompute it would cause needs
\* more than MaxEntities chunk entities)
MoveCamera(sample) ==
    /\ pc = "calculate_povs"
    /\ camera # sample
    /\ \/ WithinEpsilon(pov, sample)
       \/ Recompute(chunkRefs, chunks, nextEntity,
                    NeededIndices(sample)).nextEntity <= MaxEntities + 1
    /\ camera' = sample
    /\ UNCHANGED <<managerVars, octree, crashed, nInserted, call, chunkRefs, chunks,
                   storage, pov, pc, nextEntity, needed, gone>>

\* (a system that panics ends the process: no system runs after it)
CalculatePovs ==
    /\ pc = "calculate_povs"
    /\ IF WithinEpsilon(pov, camera)
       THEN /\ pc' = "generate_meshes"
            /\ gone' = {}
            /\ UNCHANGED <<chunkRefs, chunks, nextEntity, pov, needed, crashed>>
       ELSE IF TodoReached(chunkRefs, nextEntity, NeededIndices(camera))
       THEN /\ pc' = "panicked"
            /\ crashed' = TRUE
            /\ UNCHANGED <<chunkRefs, chunks, nextEntity, pov, needed, gone>>
       ELSE LET needed_indices == NeededIndices(camera)
                r == Recompute(chunkRefs, chunks, nextEntity, needed_indices)
            IN  /\ r.nextEntity <= MaxEntities + 1
                /\ pc' = "generate_meshes"
                /\ gone' = {}
                /\ pov' = camera
                /\ needed' = needed_indices
                /\ chunkRefs' = r.chunkRefs
                /\ chunks' = r.chunks
                /\ nextEntity' = r.nextEntity
                /\ UNCHANGED crashed
    /\ UNCHANGED <<managerVars, octree, nInserted, call, storage, camera>>

-----------------------------------------------------------------------------
(* generate_meshes, the build tasks, poll_mesh_tasks, spawn_ready_chunks *)

\* the cap of generate_meshes, `if i > 256 { return; }` (256 in the
\* source; small here so that a handful of chunks reaches it)
MeshCap == 1

Entities(ents, Test(_)) == {e \in DOMAIN ents : Test(ents[e])}

\* the orders in which `query.iter()` may yield the chunks of a query
RECURSIVE QueryOrders(_)
QueryOrders(S) ==
    IF S = {} THEN {<<>>}
    ELSE UNION {{<<e>> \o rest : rest \in QueryOrders(S \ {e})} : e \in S}

StorageHasMesh(stor, index) ==
    index \in DOMAIN stor /\ IsSome(stor[index].mesh_handle)

\* the task spawned on the AsyncComputeTaskPool, not yet finished; its
\* closure owns `index_clone` (and clones of the Body's geometry and
\* octree, which nothing writes)
NewTask(index) == [finished |-> FALSE, index_clone |-> index]

\* the loop of generate_meshes over the chunks With<NeedsMesh>,
\* Without<GeneratingMesh>, from position k of the query's order, with i
\* builds counted so far
RECURSIVE GenerateFrom(_, _, _, _)
GenerateFrom(order, k, i, ents) ==
    IF k > Len(order) THEN ents
    ELSE LET e == order[k] IN
         IF chunks[e].Mesh3d
         THEN GenerateFrom(order, k + 1, i,
                           [ents EXCEPT ![e].NeedsMesh = FALSE])
         ELSE IF i > MeshCap THEN ents
         ELSE IF StorageHasMesh(storage, chunks[e].index)
         THEN GenerateFrom(order, k + 1, i, ents)
         ELSE GenerateFrom(order, k + 1, i + 1,
                           [ents EXCEPT ![e].GeneratingMesh =
                                            Some(NewTask(chunks[e].index))])

\* a query filter that admits the chunks that carry GeneratingMesh
WithNeedsMesh(c) == c.NeedsMesh

\* the filter (With<NeedsMesh>, Without<GeneratingMesh>) of the queries of
\* generate_meshes and spawn_ready_chunks
WithNeedsMeshWithoutGeneratingMesh(c) ==
    c.NeedsMesh /\ c.GeneratingMesh = None

GenerateMeshes ==
    /\ pc = "generate_meshes"
    /\ pc' = "poll_mesh_tasks"
    /\ LET query == Entities(chunks, WithNeedsMeshWithoutGeneratingMesh)
           generating == Entities(chunks, LAMBDA c : IsSome(c.GeneratingMesh))
       IN  \E order \in QueryOrders(query) :
              chunks' = GenerateFrom(order, 1, Cardinality(generating),
                                     chunks)
    /\ UNCHANGED <<managerVars, octree, crashed, nInserted, call, chunkRefs, storage, pov,
                   camera, nextEntity, needed, gone>>

\* a build task runs to its end on the task pool, at any time
TaskFinishes(e) ==
    /\ e \in DOMAIN chunks
    /\ IsSome(chunks[e].GeneratingMesh)
    /\ ~Unwrap(chunks[e].GeneratingMesh).finished
    /\ chunks' = [chunks EXCEPT ![e].GeneratingMesh[1].finished = TRUE]
    /\ UNCHANGED <<managerVars, octree, crashed, nInserted, call, chunkRefs, storage, pov,
                   camera, pc, nextEntity, needed, gone>>

\* a build that takes the cells of the whole octree
TaskOutputOfBody(task) == Found(cells(octree))

\* the value of a finished task: Some((cells, ..)) or None, computed by
\* the closure from what it owns
TaskOutput(task) == get_cells_for_index(octree, task.index_clone)

\* the global -> local cell map of `geometry.sub_geometry(&cells)`: the
\* place of each cell in the local geometry, or, for a subset of more
\* than SimplifyAbove cells, the one cell of the simplified geometry
sub_geometry_cell_map(cs) ==
    [c \in Range(cs) |->
        IF Len(cs) > SimplifyAbove THEN 0
        ELSE (CHOOSE k \in 1..Len(cs) : cs[k] = c) - 1]

\* the ChunkCells component inserted for a task that yielded Some(..)
NewChunkCells(task) ==
    [cells          |-> Range(TaskOutput(task).cells),
     cells_to_local |-> sub_geometry_cell_map(TaskOutput(task).cells)]

\* ChunkData after `entry.cells = ..; entry.mesh_handle = ..`; the handle
\* is named after the chunk entity whose build produced the mesh
Integrated(stor, e, index) ==
    LET old == IF index \in DOMAIN stor THEN stor[index]
               ELSE [mesh_handle |-> None, entity |-> None, cells |-> None]
        task == Unwrap(chunks[e].GeneratingMesh)
    IN  [old EXCEPT !.cells = Some(TaskOutput(task).cells),
                    !.mesh_handle = Some(e)]

\* a poll that takes every task, finished or not
is_finished_always(task) == TRUE

\* a poll that finds no task finished
is_finished_never(task) == FALSE

\* `gen_mesh.0.is_finished()`
is_finished(task) == task.finished

PollMeshTasks ==
    /\ pc = "poll_mesh_tasks"
    /\ pc' = "spawn_ready_chunks"
    /\ LET done == Entities(chunks,
                      LAMBDA c : IsSome(c.GeneratingMesh)
                                 /\ is_finished(Unwrap(c.GeneratingMesh)))
           built == {e \in done :
                        TaskOutput(Unwrap(chunks[e].GeneratingMesh)).tag = "Some"}
           builtIndices == {chunks[e].index : e \in built}
       IN  /\ storage' =
                [index \in DOMAIN storage \cup builtIndices |->
                    IF index \in builtIndices
                    THEN Integrated(storage,
                                    CHOOSE e \in built : chunks[e].index = index,
                                    index)
                    ELSE storage[index]]
           /\ chunks' =
                [e \in DOMAIN chunks |->
                    IF e \in done
                    THEN [chunks[e] EXCEPT
                            !.GeneratingMesh = None,
                            !.ChunkCells =
                                IF e \in built
                                THEN Some(NewChunkCells(
                                         Unwrap(chunks[e].GeneratingMesh)))
                                ELSE @]
                    ELSE chunks[e]]
    /\ UNCHANGED <<managerVars, octree, crashed, nInserted, call, chunkRefs, pov, camera,
                   nextEntity, needed, gone>>

SpawnReadyChunks ==
    /\ pc = "spawn_ready_chunks"
    /\ pc' = "despawn_chunks"
    /\ LET query == Entities(chunks, WithNeedsMeshWithoutGeneratingMesh)
           stored == {e \in query :
                         /\ chunks[e].index \in DOMAIN storage
                         /\ storage[chunks[e].index].entity = None}
           ready == {e \in stored : StorageHasMesh(storage, chunks[e].index)}
       IN  /\ chunks' =
                [e \in DOMAIN chunks |->
                    IF e \in ready
                    THEN [chunks[e] EXCEPT !.Mesh3d = TRUE, !.NeedsMesh = FALSE]
                    ELSE chunks[e]]
           /\ storage' =
                [index \in DOMAIN storage \ {chunks[e].index : e \in stored} |->
                    storage[index]]
    /\ UNCHANGED <<managerVars, octree, crashed, nInserted, call, chunkRefs, pov, camera,
                   nextEntity, needed, gone>>

-----------------------------------------------------------------------------
(* despawn_chunks *)

\* `if let Ok(None) = has_mesh.get(*cr)`: the entity exists and has no
\* Mesh3d (despawns are commands: every entity of the pass still exists)
LacksMesh(ents, e) == e \in DOMAIN ents /\ ~ents[e].Mesh3d

\* a gate that waits for a dependent as long as it exists
HoldsBackWhileLive(refs, ents, index) == index \in DOMAIN refs

\* one dependent of the `for index in pending` loop: does it hold the
\* deletion back
HoldsBack(refs, ents, index) ==
    index \in DOMAIN refs /\ LacksMesh(ents, refs[index].entity)

\* a gate that is content with one dependent that does not hold back
can_delete_any(refs, ents, pending) ==
    \/ pending = <<>>
    \/ \E k \in 1..Len(pending) : ~HoldsBack(refs, ents, pending[k])

\* can_delete after the loop over pending
can_delete(refs, ents, pending) ==
    \A k \in 1..Len(pending) : ~HoldsBack(refs, ents, pending[k])

\* a deletion that leaves the ChunkRefs entry behind
DestroyKeepsRef(state, e, index) ==
    [chunkRefs |-> state.chunkRefs,
     storage   |-> RemoveKey(state.storage, index),
     despawned |-> state.despawned \cup {e}]

\* a deletion that removes the entries of the identifiers below the
\* chunk's own as well
DestroySubtree(state, e, index) ==
    [chunkRefs |-> [i \in {j \in DOMAIN state.chunkRefs : ~IsPrefix(index, j)}
                        |-> state.chunkRefs[i]],
     storage   |-> [i \in {j \in DOMAIN state.storage : ~IsPrefix(index, j)}
                        |-> state.storage[i]],
     despawned |-> state.despawned \cup {e}]

\* what despawn_chunks removes for a chunk it deletes
Destroy(state, e, index) ==
    [chunkRefs |-> RemoveKey(state.chunkRefs, index),
     storage   |-> RemoveKey(state.storage, index),
     despawned |-> state.despawned \cup {e}]

\* the loop of despawn_chunks over the chunks with AwaitingDeletion, from
\* position k of the query's order; ChunkRefs and ChunkStorage are written
\* at once, the despawns are commands
RECURSIVE DespawnFrom(_, _, _)
DespawnFrom(order, k, state) ==
    IF k > Len(order) THEN state
    ELSE LET e == order[k]
             pending == Unwrap(chunks[e].AwaitingDeletion)
         IN  IF can_delete(state.chunkRefs, chunks, pending)
             THEN DespawnFrom(order, k + 1,
                              Destroy(state, e, chunks[e].index))
             ELSE DespawnFrom(order, k + 1, state)

\* the record kept of a destroyed chunk
Gone(e) == [entity |-> e, index |-> chunks[e].index,
            pending |-> Unwrap(chunks[e].AwaitingDeletion),
            mesh |-> chunks[e].Mesh3d]

DespawnChunks ==
    /\ pc = "despawn_chunks"
    /\ pc' = "calculate_povs"
    /\ \E order \in QueryOrders(Entities(chunks,
                              LAMBDA c : IsSome(c.AwaitingDeletion))) :
          LET r == DespawnFrom(order, 1,
                               [chunkRefs |-> chunkRefs, storage |-> storage,
                                despawned |-> {}])
          IN  /\ chunkRefs' = r.chunkRefs
              /\ storage' = r.storage
              /\ chunks' = [e \in DOMAIN chunks \ r.despawned |-> chunks[e]]
              /\ gone' = {Gone(e) : e \in r.despawned}
    /\ UNCHANGED <<managerVars, octree, crashed, nInserted, call, pov, camera, nextEntity,
                   needed>>

-----------------------------------------------------------------------------
(* The lifecycle specification: one body, the FixedUpdate chain
   calculate_povs -> generate_meshes -> poll_mesh_tasks ->
   spawn_ready_chunks -> despawn_chunks, commands applied between systems *)

Init ==
    /\ octree = BodyOctree
    /\ crashed = FALSE
    /\ nInserted = Len(CellNormals)
    /\ call = NoCall
    /\ InitLifecycle
    /\ InitManager

Next ==
    \/ \E sample \in CameraSamples : MoveCamera(sample)
    \/ CalculatePovs
    \/ GenerateMeshes
    \/ \E e \in 1..MaxEntities : TaskFinishes(e)
    \/ PollMeshTasks
    \/ SpawnReadyChunks
    \/ DespawnChunks

Spec == Init /\ [][Next]_vars

\* the same world around the deeper body
InitDeep ==
    /\ octree = DeepOctree
    /\ crashed = FALSE
    /\ nInserted = Len(DeepCellNormals)
    /\ call = NoCall
    /\ InitLifecycle
    /\ InitManager

NextDeep ==
    \/ \E sample \in DeepCameraSamples : MoveCamera(sample)
    \/ CalculatePovs
    \/ GenerateMeshes
    \/ \E e \in 1..MaxEntities : TaskFinishes(e)
    \/ PollMeshTasks
    \/ SpawnReadyChunks
    \/ DespawnChunks

SpecDeep == InitDeep /\ [][NextDeep]_vars

\* the five systems run, in this order, in every FixedUpdate tick, and the
\* task pool runs every task it was given to its end; each system can
\* take its step whenever control stands before it, so its weak fairness
\* is that control does not stay there
Fairness ==
    /\ []<>(pc # "calculate_povs")
    /\ []<>(pc # "generate_meshes")
    /\ []<>(pc # "poll_mesh_tasks")
    /\ []<>(pc # "spawn_ready_chunks")
    /\ []<>(pc # "despawn_chunks")
    /\ \A e \in 1..MaxEntities : WF_vars(TaskFinishes(e))

SpecFair == Init /\ [][Next]_vars /\ Fairness

-----------------------------------------------------------------------------
(* The channel-based manager (src/src/chunking.rs): ChunkManager, its
   worker threads and its systems, which run in FixedUpdate in no fixed
   order *)

\* new_pov handed to update_pov by update_chunk_pov_system (grid units):
\* normalize * (1 + fov / 5) over the edge of octant 7, below -y and
\* beyond -x; the needed sets are {[0], [7]}, {[0]} and {[0], [6]}
ManagerTargets == {<<7, -6, 0>>, <<0, -9, 0>>, <<-9, 0, 0>>}

\* a loop that sends a request for every needed index
NewRequestsUnchecked(needed_indices, k, requested) ==
    SubSeq(needed_indices, k, Len(needed_indices))

\* the requests update_pov sends for needed_indices from position k on,
\* with `requested` the active_requests so far
RECURSIVE NewRequests(_, _, _)
NewRequests(needed_indices, k, requested) ==
    IF k > Len(needed_indices) THEN <<>>
    ELSE LET idx == needed_indices[k] IN
         IF idx \notin mesh_handles /\ idx \notin requested
         THEN <<idx>> \o NewRequests(needed_indices, k + 1,
                                     requested \cup {idx})
         ELSE NewRequests(needed_indices, k + 1, requested)

\* ChunkManager::update_pov
UpdatePov(new_pov) ==
    /\ manager_pov # new_pov
    /\ manager_pov' = new_pov
    /\ LET needed_indices == get_chunk_indices(octree, new_pov)
           sent == NewRequests(needed_indices, 1, active_requests)
           new_active_chunks == Range(needed_indices)
           unloading == (active_chunks \ new_active_chunks) \cap mesh_handles
       IN  /\ sender' = sender \o sent
           /\ active_requests' = active_requests \cup Range(sent)
           /\ mesh_handle_unload_times' =
                [idx \in DOMAIN mesh_handle_unload_times \cup unloading |->
                    IF idx \in unloading THEN "now"
                    ELSE mesh_handle_unload_times[idx]]
           /\ active_chunks' = new_active_chunks
    /\ UNCHANGED <<mesh_handles, mesh_entities, manager_cells, receiver,
                   workers, panics>>
    /\ UNCHANGED <<octree, crashed, nInserted, call, lifecycleVars>>

\* a worker's `request_receiver.recv()` returns a request
WorkerRecv(w) ==
    /\ w \in DOMAIN workers
    /\ workers[w].state = "recv"
    /\ sender # <<>>
    /\ workers' = [workers EXCEPT ![w] = [state |-> "build",
                                          index |-> Head(sender)]]
    /\ sender' = Tail(sender)
    /\ UNCHANGED <<manager_pov, mesh_handles, mesh_handle_unload_times,
                   mesh_entities, active_requests, active_chunks,
                   manager_cells, receiver, panics>>
    /\ UNCHANGED <<octree, crashed, nInserted, call, lifecycleVars>>

ChunkResponse(index, cs) == [index |-> index, cells |-> cs]

\* a worker ends the body of its loop: it sends a response if
\* get_cells_for_index found cells, and sends nothing otherwise
WorkerBuilds(w) ==
    /\ w \in DOMAIN workers
    /\ workers[w].state = "build"
    /\ LET found == get_cells_for_index(octree, workers[w].index)
       IN  /\ receiver' = IF found.tag = "Some"
                          THEN Append(receiver,
                                      ChunkResponse(workers[w].index,
                                                    found.cells))
                          ELSE receiver
           /\ workers' = [workers EXCEPT ![w] =
                            IF found.tag = "Panic"
                            THEN [state |-> "finished", index |-> <<>>]
                            ELSE WorkerIdle]
    /\ UNCHANGED <<manager_pov, mesh_handles, mesh_handle_unload_times,
                   mesh_entities, active_requests, active_chunks,
                   manager_cells, sender, panics>>
    /\ UNCHANGED <<octree, crashed, nInserted, call, lifecycleVars>>

\* a worker thread panics while it builds: the thread is finished and the
\* request it had received gets no response
WorkerPanics(w) ==
    /\ w \in DOMAIN workers
    /\ workers[w].state = "build"
    /\ panics < MaxPanics
    /\ panics' = panics + 1
    /\ workers' = [workers EXCEPT ![w] = [state |-> "finished",
                                          index |-> <<>>]]
    /\ UNCHANGED <<manager_pov, mesh_handles, mesh_handle_unload_times,
                   mesh_entities, active_requests, active_chunks,
                   manager_cells, sender, receiver>>
    /\ UNCHANGED <<octree, crashed, nInserted, call, lifecycleVars>>

\* a loop body that joins a finished handle and spawns nothing for it
RespawnedDropsFinished(handle) ==
    IF handle.state = "finished" THEN <<>> ELSE <<handle>>

\* the body of the loop over `self.workers.drain(..)`: what one handle
\* adds to still_alive
Respawned(handle) ==
    IF handle.state = "finished" THEN spawn_workers(1) ELSE <<handle>>

\* still_alive after the loop has taken the handles from position k on
RECURSIVE StillAlive(_, _)
StillAlive(handles, k) ==
    IF k > Len(handles) THEN <<>>
    ELSE Respawned(handles[k]) \o StillAlive(handles, k + 1)

\* ChunkManager::check_and_respawn_workers (check_workers_system)
CheckAndRespawnWorkers ==
    /\ workers' = StillAlive(workers, 1)
    /\ UNCHANGED <<manager_pov, mesh_handles, mesh_handle_unload_times,
                   mesh_entities, active_requests, active_chunks,
                   manager_cells, sender, receiver, panics>>
    /\ UNCHANGED <<octree, crashed, nInserted, call, lifecycleVars>>

\* the body of the `while let Ok(resp) = try_recv()` loop for one response
Integrate(st, resp) ==
    IF resp.index \in st.mesh_handles
    THEN [st EXCEPT !.active_requests = @ \ {resp.index}]
    ELSE [active_requests |-> st.active_requests \ {resp.index},
          mesh_handles    |-> st.mesh_handles \cup {resp.index},
          cells           |-> [idx \in DOMAIN st.cells \cup {resp.index} |->
                                  IF idx = resp.index THEN resp.cells
                                  ELSE st.cells[idx]]]

\* the manager after the loop has taken the first k responses
RECURSIVE AfterResponses(_)
AfterResponses(k) ==
    IF k = 0
    THEN [active_requests |-> active_requests,
          mesh_handles    |-> mesh_handles,
          cells           |-> manager_cells]
    ELSE Integrate(AfterResponses(k - 1), receiver[k])

\* process_chunk_responses_system: the loop ends when the channel is empty,
\* or after a response that was integrated when more than 1 ms has passed
ProcessChunkResponses ==
    /\ receiver # <<>>
    /\ \E k \in 1..Len(receiver) :
          /\ \/ k = Len(receiver)
             \/ receiver[k].index \notin AfterResponses(k - 1).mesh_handles
          /\ receiver' = SubSeq(receiver, k + 1, Len(receiver))
          /\ active_requests' = AfterResponses(k).active_requests
          /\ mesh_handles' = AfterResponses(k).mesh_handles
          /\ manager_cells' = AfterResponses(k).cells
    /\ UNCHANGED <<manager_pov, mesh_handle_unload_times, mesh_entities,
                   active_chunks, sender, workers, panics>>
    /\ UNCHANGED <<octree, crashed, nInserted, call, lifecycleVars>>

\* the first loop of process_chunk_backlog_system: the entities of indices
\* that are no longer active, despawned in key order; nothing while a
\* request is outstanding; the loop may end on the 1 ms test after any one
Despawnable ==
    IF active_requests # {} THEN <<>>
    ELSE SortedSeq(mesh_entities \ active_chunks)

\* the second loop: the active indices without an entity, in key order
Spawnable == SortedSeq(active_chunks \ mesh_entities)

\* a call of process_chunk_backlog_system whose first loop ends after j
\* indices and whose second loop ends after k
BacklogPass(j, k) ==
    /\ j = 0 => Despawnable = <<>>
    /\ k = 0 => Spawnable = <<>>
    /\ mesh_entities' =
          (mesh_entities \ {Despawnable[i] : i \in 1..j})
              \cup {idx \in {Spawnable[i] : i \in 1..k} :
                       idx \in mesh_handles}
    /\ UNCHANGED <<manager_pov, mesh_handles, mesh_handle_unload_times,
                   active_requests, active_chunks, manager_cells, sender,
                   receiver, workers, panics>>
    /\ UNCHANGED <<octree, crashed, nInserted, call, lifecycleVars>>

\* process_chunk_backlog_system
ProcessChunkBacklog ==
    \E j \in 0..Len(Despawnable), k \in 0..Len(Spawnable) : BacklogPass(j, k)

\* ten seconds go by: `time.elapsed() > Duration::from_secs(10)` becomes
\* true for every unload time recorded so far
TenSecondsPass ==
    /\ \E idx \in DOMAIN mesh_handle_unload_times :
          mesh_handle_unload_times[idx] = "now"
    /\ mesh_handle_unload_times' =
          [idx \in DOMAIN mesh_handle_unload_times |-> "elapsed"]
    /\ UNCHANGED <<manager_pov, mesh_handles, mesh_entities, active_requests,
                   active_chunks, manager_cells, sender, receiver, workers,
                   panics>>
    /\ UNCHANGED <<octree, crashed, nInserted, call, lifecycleVars>>

\* cleanup_old_handles
CleanupOldHandles ==
    /\ LET removals == {idx \in DOMAIN mesh_handle_unload_times :
                           mesh_handle_unload_times[idx] = "elapsed"}
       IN  /\ mesh_handles' = mesh_handles \ removals
           /\ mesh_handle_unload_times' =
                [idx \in DOMAIN mesh_handle_unload_times \ removals |->
                    mesh_handle_unload_times[idx]]
    /\ UNCHANGED <<manager_pov, mesh_entities, active_requests, active_chunks,
                   manager_cells, sender, receiver, workers, panics>>
    /\ UNCHANGED <<octree, crashed, nInserted, call, lifecycleVars>>

NextManager ==
    \/ \E new_pov \in ManagerTargets : UpdatePov(new_pov)
    \/ \E w \in 1..NUM_WORKERS : WorkerRecv(w)
    \/ \E w \in 1..NUM_WORKERS : WorkerBuilds(w)
    \/ \E w \in 1..NUM_WORKERS : WorkerPanics(w)
    \/ CheckAndRespawnWorkers
    \/ ProcessChunkResponses
    \/ ProcessChunkBacklog
    \/ TenSecondsPass
    \/ CleanupOldHandles

SpecManager == Init /\ [][NextManager]_vars

\* a call of process_chunk_backlog_system that has little to do ends both
\* loops within the millisecond
FullBacklogPass == BacklogPass(Len(Despawnable), Len(Spawnable))

\* the systems of the manager run in every FixedUpdate tick and the worker
\* threads run; the camera may rest or move, a worker may panic or not,
\* and time passes as it will
FairnessManager ==
    /\ WF_vars(FullBacklogPass)
    /\ WF_vars(ProcessChunkResponses)
    /\ WF_vars(CheckAndRespawnWorkers)
    /\ WF_vars(CleanupOldHandles)
    /\ \A w \in 1..NUM_WORKERS :
          WF_vars(WorkerRecv(w)) /\ WF_vars(WorkerBuilds(w))

SpecManagerFair == Init /\ [][NextManager]_vars /\ FairnessManager

-----------------------------------------------------------------------------
(* Properties *)

\* the entity a ChunkRefs entry names exists and has no Mesh3d
UnmeshedDependent(index) ==
    /\ index \in DOMAIN chunkRefs
    /\ chunkRefs[index].entity \in DOMAIN chunks
    /\ ~chunks[chunkRefs[index].entity].Mesh3d

\* some recorded dependent of chunk entity e has no mesh yet
Waiting(e) ==
    /\ IsSome(chunks[e].AwaitingDeletion)
    /\ \E k \in 1..Len(Unwrap(chunks[e].AwaitingDeletion)) :
          UnmeshedDependent(Unwrap(chunks[e].AwaitingDeletion)[k])

\* the step is a run of despawn_chunks
DespawnStep == pc = "despawn_chunks" /\ pc' = "calculate_povs"

\* the step is a run of calculate_povs that recomputes
RecomputeStep ==
    pc = "calculate_povs" /\ pc' = "generate_meshes" /\ pov' # pov

\* C1 -- No-gap guarantee of the deletion gate: a run of despawn_chunks
\* destroys no chunk (entity, ChunkRefs entry, ChunkStorage entry) while one
\* of the identifiers in its dependents list resolves through ChunkRefs to
\* an existing chunk entity without Mesh3d; such a chunk keeps its entity
\* and its entry.
C1_NoGapDeletion ==
    [][DespawnStep =>
          \A e \in DOMAIN chunks :
              Waiting(e) =>
                  /\ e \in DOMAIN chunks'
                  /\ chunks[e].index \in DOMAIN chunkRefs'
                  /\ chunkRefs'[chunks[e].index] = chunkRefs[chunks[e].index]]_vars

\* C1 witness: the gate has just destroyed a coarse chunk that had a mesh
\* and waited for two finer chunks, both of which now have a mesh
C1_Witness ==
    /\ pc = "calculate_povs"
    /\ \E g \in gone :
          /\ g.mesh
          /\ Len(g.pending) >= 2
          /\ \A k \in 1..Len(g.pending) :
                /\ g.pending[k] \in DOMAIN chunkRefs
                /\ chunks[chunkRefs[g.pending[k]].entity].Mesh3d

\* the cells of the region an identifier names
RegionCells(index) == Range(get_cells_for_index(octree, index).cells)

\* a cell is shown: it lies in the region of a live chunk that has a mesh
Covered(cell) ==
    \E e \in DOMAIN chunks :
        chunks[e].Mesh3d /\ cell \in RegionCells(chunks[e].index)

\* C2 -- The visible surface never shows a gap: a cell that lies in the
\* region of a live chunk with a mesh still does after every step (POV
\* change, recompute, build completion, deletion gate).
C2_NoGap ==
    [][\A cell \in Cells : Covered(cell) => Covered(cell)']_vars

\* the payloads named by a result of get_chunk_indices, region by region
ResultCells(result) ==
    Concat([i \in 1..Len(result) |->
               get_cells_for_index(octree, result[i]).cells])

Count(s, x) == Cardinality({i \in 1..Len(s) : s[i] = x})

\* C3 -- Partition completeness: the identifiers returned by
\* get_chunk_indices cover every inserted point exactly once.
C3_PartitionComplete ==
    call.op = "get_chunk_indices" =>
        \A value \in 0..(nInserted - 1) :
            Count(ResultCells(call.result), value) = 1

\* C4 -- The identifiers returned by one call of get_chunk_indices form an
\* antichain in the prefix order: no returned identifier is equal to, or a
\* strict prefix of, another returned identifier.
C4_Antichain ==
    call.op = "get_chunk_indices" =>
        \A i, j \in 1..Len(call.result) :
            i # j => ~IsPrefix(call.result[i], call.result[j])

\* C4 witness: a call returned identifiers of different depths
C4_Witness ==
    /\ call.op = "get_chunk_indices"
    /\ \E i, j \in 1..Len(call.result) :
          Len(call.result[i]) < Len(call.result[j])

\* C5 -- Reinstatement: a recompute turns the Cleanup entry of a needed
\* identifier into Active for the same entity, removes the chunk's
\* AwaitingDeletion and sets NeedsMesh; and despawn_chunks destroys no
\* chunk whose identifier is in the needed set of the latest recompute.
C5_Reinstatement ==
    [][/\ RecomputeStep =>
             \A index \in DOMAIN chunkRefs :
                 (chunkRefs[index].tag = "Cleanup" /\ index \in needed') =>
                     /\ chunkRefs'[index] = Active(chunkRefs[index].entity)
                     /\ chunks'[chunkRefs[index].entity].AwaitingDeletion = None
                     /\ chunks'[chunkRefs[index].entity].NeedsMesh
       /\ DespawnStep =>
             \A e \in DOMAIN chunks \ DOMAIN chunks' :
                 chunks[e].index \notin needed]_vars

\* C5 witness: calculate_povs has just reinstated a chunk; only a
\* reinstated chunk carries NeedsMesh together with a mesh
C5_Witness ==
    /\ pc = "generate_meshes"
    /\ \E index \in DOMAIN chunkRefs :
          /\ chunkRefs[index].tag = "Active"
          /\ index \in needed
          /\ chunks[chunkRefs[index].entity].NeedsMesh
          /\ chunks[chunkRefs[index].entity].Mesh3d
          /\ chunks[chunkRefs[index].entity].AwaitingDeletion = None

\* squared distance below 0.0001 and field of view closer than 0.0001
Near(p, cam) ==
    /\ DistanceSquared(p.pos, cam.pos) <= 3
    /\ p.fov - cam.fov \in {-1, 0, 1}

\* C6 -- Epsilon idempotence: a run of calculate_povs that samples a camera
\* within epsilon of the stored POV changes no ChunkRefs entry, no chunk,
\* spawns nothing and leaves the POV as it is.
C6_EpsilonIdempotence ==
    [][(pc = "calculate_povs" /\ pc' = "generate_meshes" /\ Near(pov, camera))
          => UNCHANGED <<chunkRefs, chunks, storage, pov, nextEntity, needed>>]_vars

\* C6 witness: calculate_povs has run with chunks alive and a camera that
\* is within epsilon of the POV without being equal to it
C6_Witness ==
    /\ pc = "generate_meshes"
    /\ pov # camera
    /\ Near(pov, camera)
    /\ DOMAIN chunkRefs # {}

\* the needed sets the camera samples lead to
NeededSets ==
    {Range(get_chunk_indices(BodyOctree, Normalize(sample.pos))) :
        sample \in CameraSamples}

\* the state of the chunk lifecycle that a recompute writes
Lifecycle == [chunkRefs |-> chunkRefs, chunks |-> chunks,
              nextEntity |-> nextEntity]

\* C7 -- Recompute is idempotent in the needed set: from every state and
\* for every needed set, a second recompute right after the first leaves
\* the ChunkRefs, the chunks (dependents lists, NeedsMesh, GeneratingMesh)
\* and the entity counter as the first left them and spawns nothing; and
\* in the state calculate_povs leaves, a recompute with the needed set it
\* used changes nothing.
C7_RecomputeIdempotent ==
    /\ \A n \in NeededSets :
          LET first == Recompute(chunkRefs, chunks, nextEntity, n)
              second == Recompute(first.chunkRefs, first.chunks,
                                  first.nextEntity, n)
          IN  second = first
    /\ (pc = "generate_meshes" /\ pov = camera) =>
          Recompute(chunkRefs, chunks, nextEntity, needed) = Lifecycle

\* C7 witness: calculate_povs has just recomputed, it left a chunk in
\* Cleanup with dependents, a chunk that needs a mesh and a chunk that
\* has one, and a second recompute leaves all of it unchanged
C7_Witness ==
    /\ pc = "generate_meshes"
    /\ pov = camera
    /\ \E e \in DOMAIN chunks :
          chunks[e].AwaitingDeletion \notin {None, Some(<<>>)}
    /\ \E e \in DOMAIN chunks : chunks[e].NeedsMesh /\ ~chunks[e].Mesh3d
    /\ \E e \in DOMAIN chunks : chunks[e].Mesh3d
    /\ Recompute(chunkRefs, chunks, nextEntity, needed) = Lifecycle

\* C8 -- Deletion is prompt: when a cycle ends, every chunk still in
\* Cleanup waits for a dependent that exists and has no mesh, and every
\* chunk the gate destroyed has lost its entity, its ChunkRefs entry and
\* its ChunkStorage entry.
C8_PromptDeletion ==
    pc = "calculate_povs" =>
        /\ \A index \in DOMAIN chunkRefs :
              chunkRefs[index].tag = "Cleanup" =>
                  Waiting(chunkRefs[index].entity)
        /\ \A g \in gone :
              /\ g.entity \notin DOMAIN chunks
              /\ g.index \notin DOMAIN chunkRefs
              /\ g.index \notin DOMAIN storage

\* C8 witness: the cycle that has just ended destroyed a chunk with an
\* empty dependents list and one whose dependents all have a mesh
C8_Witness ==
    /\ pc = "calculate_povs"
    /\ \E g \in gone : g.pending = <<>>
    /\ \E g \in gone : g.pending # <<>>

\* C9 -- get_cells_for_index never panics: for every identifier it returns
\* Some(cells) when the identifier names a realized node and None
\* otherwise.
C9_LookupTotal ==
    call.op = "get_cells_for_index" =>
        /\ call.result.tag # "Panic"
        /\ call.result.tag = "Some" <=> IsSome(NodeAt(octree, call.arg))

\* C10 -- insert never fails: every call of insert returns, with the point
\* stored in the octree.
C10_InsertReturns ==
    call.op = "insert" =>
        /\ ~crashed
        /\ Count(cells(octree), nInserted - 1) = 1

\* the child slots of a node that hold a child
ChildSlots(node) == {i \in 0..(NumChildren - 1) : IsSome(Child(node, i))}

\* C11 -- After every insert returns, every node of the octree holds
\* points directly (points is Some) if and only if all eight of its
\* children are absent.
C11_PointsIffNoChildren ==
    \A node \in Nodes(octree) :
        IsSome(node.points) <=> ChildSlots(node) = {}

\* C11 witness: an insert has returned and left a router below the root
\* (no points, some child) and a leaf that holds a point
C11_Witness ==
    /\ call.op = "insert"
    /\ ~crashed
    /\ \E node \in Nodes(octree) :
          node.depth >= 1 /\ node.points = None /\ ChildSlots(node) # {}
    /\ \E node \in Nodes(octree) :
          IsSome(node.points) /\ Unwrap(node.points) # <<>>

\* C12 -- Capacity bound: after every insert returns, no node holds more
\* than `capacity` points directly.
C12_CapacityBound ==
    \A node \in Nodes(octree) :
        IsSome(node.points) => Len(Unwrap(node.points)) <= node.capacity

\* C13 -- Region identifiers are prefix-stable: the child in slot i of a
\* node has the node's identifier followed by the byte i and the node's
\* depth plus one, and two distinct nodes never share an identifier.
C13_PrefixStable ==
    /\ \A node \in Nodes(octree) :
          \A i \in ChildSlots(node) :
              /\ Unwrap(Child(node, i)).octree_index
                     = Append(node.octree_index, i)
              /\ Unwrap(Child(node, i)).depth = node.depth + 1
    /\ \A node \in Nodes(octree) :
          /\ Len(node.octree_index) = node.depth
          /\ \A other \in Nodes(octree) :
                other.octree_index = node.octree_index => other = node
          /\ \A below \in Nodes(node) \ {node} :
                IsStrictPrefix(node.octree_index, below.octree_index)

\* C13 witness: an insert has returned and the octree has a node two
\* levels below the root beside a node one level below it
C13_Witness ==
    /\ call.op = "insert"
    /\ ~crashed
    /\ \E node \in Nodes(octree) : node.depth = 2
    /\ Cardinality({node \in Nodes(octree) : node.depth = 1}) >= 2

\* C14 -- Per-chunk transitions are strictly ordered: in every step an
\* entry of ChunkRefs that appears is Active, an entry that disappears was
\* Cleanup, an entry that stays keeps its entity, and every chunk entity
\* that is destroyed carried AwaitingDeletion and was named by a Cleanup
\* entry.
C14_TransitionOrder ==
    [][/\ \A index \in DOMAIN chunkRefs' \ DOMAIN chunkRefs :
             chunkRefs'[index].tag = "Active"
       /\ \A index \in DOMAIN chunkRefs \ DOMAIN chunkRefs' :
             chunkRefs[index].tag = "Cleanup"
       /\ \A index \in DOMAIN chunkRefs \cap DOMAIN chunkRefs' :
             chunkRefs'[index].entity = chunkRefs[index].entity
       /\ \A e \in DOMAIN chunks \ DOMAIN chunks' :
             /\ IsSome(chunks[e].AwaitingDeletion)
             /\ chunks[e].index \in DOMAIN chunkRefs
             /\ chunkRefs[chunks[e].index].tag = "Cleanup"
             /\ chunkRefs[chunks[e].index].entity = e
             /\ chunks[e].index \notin DOMAIN chunkRefs']_vars

\* C14 witness: calculate_povs has just recomputed; an entry is Cleanup,
\* an entry is Active again for a chunk that kept its mesh from before its
\* time in Cleanup, and some chunk entity spawned earlier has been destroyed
C14_Witness ==
    /\ pc = "generate_meshes"
    /\ \E index \in DOMAIN chunkRefs : chunkRefs[index].tag = "Cleanup"
    /\ \E index \in DOMAIN chunkRefs :
          /\ chunkRefs[index].tag = "Active"
          /\ chunks[chunkRefs[index].entity].NeedsMesh
          /\ chunks[chunkRefs[index].entity].Mesh3d
    /\ Cardinality(DOMAIN chunks) < nextEntity - 1

\* C15 -- Immediately after every recompute of calculate_povs an entry of
\* ChunkRefs is Active if and only if its identifier is in the needed set,
\* every other entry is Cleanup, and every needed identifier has an entry
\* that names an existing chunk of that identifier.
C15_ActiveIffNeeded ==
    [][RecomputeStep =>
          /\ needed' \subseteq DOMAIN chunkRefs'
          /\ \A index \in DOMAIN chunkRefs' :
                /\ chunkRefs'[index].tag \in {"Active", "Cleanup"}
                /\ chunkRefs'[index].tag = "Active" <=> index \in needed'
                /\ chunkRefs'[index].entity \in DOMAIN chunks'
                /\ chunks'[chunkRefs'[index].entity].index = index]_vars

\* C15 witness: calculate_povs has just recomputed and left both needed
\* entries (Active) and entries that are not needed (Cleanup)
C15_Witness ==
    /\ pc = "generate_meshes"
    /\ pov = camera
    /\ needed # {}
    /\ \A index \in needed : chunkRefs[index].tag = "Active"
    /\ Cardinality({index \in DOMAIN chunkRefs :
                        chunkRefs[index].tag = "Cleanup"}) >= 2

\* a request for the index was sent and is lost: the index is marked as
\* requested, and no request for it is in the channel, no worker builds it
\* and no response for it is in the channel
Lost(idx) ==
    /\ idx \in active_requests
    /\ idx \notin Range(sender)
    /\ \A w \in DOMAIN workers :
          ~(workers[w].state = "build" /\ workers[w].index = idx)
    /\ \A k \in 1..Len(receiver) : receiver[k].index # idx

\* C16 -- Lost work is retried: an update of the POV whose needed set
\* holds an index that has no mesh handle and whose request was lost sends
\* a request for the index again.
C16_LostWorkRetried ==
    [][manager_pov' # manager_pov =>
          \A idx \in active_chunks' :
              (Lost(idx) /\ idx \notin mesh_handles) =>
                  idx \in Range(sender')]_vars

\* every chunk is Active with a mesh and carries neither NeedsMesh nor
\* GeneratingMesh; no chunk is in Cleanup
Converged ==
    /\ \A index \in DOMAIN chunkRefs : chunkRefs[index].tag = "Active"
    /\ \A e \in DOMAIN chunks :
          /\ chunks[e].Mesh3d
          /\ ~chunks[e].NeedsMesh
          /\ chunks[e].GeneratingMesh = None
          /\ chunks[e].AwaitingDeletion = None

\* C17 -- Convergence: if from some cycle on the camera rests (the POV
\* stays unchanged) and every started build finishes, then from some cycle
\* on every Active chunk has a mesh, no chunk carries NeedsMesh or
\* GeneratingMesh, and no chunk is in Cleanup.
C17_Convergence ==
    \A sample \in CameraSamples :
        <>[](camera = sample) => <>[]Converged

\* C17 witness: the world has converged after some chunk was destroyed: a
\* cycle ends with meshes on all chunks, all of them Active
C17_Witness ==
    /\ pc = "calculate_povs"
    /\ Converged
    /\ DOMAIN chunks # {}
    /\ Cardinality(DOMAIN chunks) < nextEntity - 1


\* the chunks that carry GeneratingMesh
InFlight == Entities(chunks, LAMBDA c : IsSome(c.GeneratingMesh))

\* C18: at the end of every cycle (the chain has run through and
\* calculate_povs is next) at most MeshCap chunks carry GeneratingMesh
C18_InFlightBounded ==
    pc = "calculate_povs" => Cardinality(InFlight) <= MeshCap

\* the chunks whose build task is still running
Unfinished ==
    {e \in DOMAIN chunks : /\ IsSome(chunks[e].GeneratingMesh)
                           /\ ~Unwrap(chunks[e].GeneratingMesh).finished}

\* the region identifiers whose ChunkStorage entry a step writes
StorageWritten ==
    {index \in DOMAIN storage' :
        index \notin DOMAIN storage \/ storage'[index] # storage[index]}

\* C19: poll_mesh_tasks leaves every chunk with an unfinished task as it
\* is and writes a ChunkStorage entry only for a chunk whose task has
\* finished; the systems after calculate_povs can always take their step,
\* whatever the tasks in flight; a step of a build task changes neither
\* ChunkRefs nor ChunkStorage nor the Body's octree
C19_NeverWaits ==
    [][/\ (pc = "poll_mesh_tasks" /\ pc' = "spawn_ready_chunks") =>
            /\ \A e \in Unfinished :
                  e \in DOMAIN chunks' /\ chunks'[e] = chunks[e]
            /\ \A index \in StorageWritten :
                  \E e \in DOMAIN chunks \ Unfinished :
                     /\ chunks[e].index = index
                     /\ IsSome(chunks[e].GeneratingMesh)
       /\ pc = "generate_meshes" => ENABLED GenerateMeshes
       /\ pc = "poll_mesh_tasks" => ENABLED PollMeshTasks
       /\ pc = "spawn_ready_chunks" => ENABLED SpawnReadyChunks
       /\ pc = "despawn_chunks" => ENABLED DespawnChunks
       /\ (\E e \in 1..MaxEntities : TaskFinishes(e)) =>
            UNCHANGED <<chunkRefs, storage, octree>>
      ]_vars

\* poll_mesh_tasks has stored the result of a finished task while another
\* task is still running
C19_Witness ==
    /\ pc = "spawn_ready_chunks"
    /\ Unfinished # {}
    /\ \E index \in DOMAIN storage : IsSome(storage[index].mesh_handle)

\* the chunks that a step gives a mesh
MeshAttached ==
    {e \in DOMAIN chunks' :
        chunks'[e].Mesh3d /\ (e \notin DOMAIN chunks \/ ~chunks[e].Mesh3d)}

\* C20 -- Revocation/completion race: a chunk in Cleanup carries no build
\* task (the task it had is dropped with the move), and neither does a
\* chunk at the moment it is reinstated, which asks for a fresh build with
\* NeedsMesh; a build result is stored only for an identifier that is
\* Active, from a finished task of its chunk entity, and a mesh is attached
\* only to the chunk entity of an Active identifier; every identifier of
\* ChunkRefs names an existing chunk entity, and no two chunk entities
\* (hence no two meshes) exist for one identifier.
C20_RevocationRace ==
    [][/\ \A index \in DOMAIN chunkRefs' :
             /\ chunkRefs'[index].entity \in DOMAIN chunks'
             /\ chunkRefs'[index].tag = "Cleanup" =>
                   chunks'[chunkRefs'[index].entity].GeneratingMesh = None
       /\ \A index \in DOMAIN chunkRefs \cap DOMAIN chunkRefs' :
             (chunkRefs[index].tag = "Cleanup"
                 /\ chunkRefs'[index].tag = "Active") =>
                LET c == chunks'[chunkRefs'[index].entity]
                IN  c.GeneratingMesh = None /\ c.NeedsMesh
       /\ \A index \in StorageWritten :
             /\ index \in DOMAIN chunkRefs
             /\ chunkRefs[index].tag = "Active"
             /\ chunkRefs[index].entity \in DOMAIN chunks \ Unfinished
             /\ IsSome(chunks[chunkRefs[index].entity].GeneratingMesh)
       /\ \A e \in MeshAttached :
             /\ chunks'[e].index \in DOMAIN chunkRefs
             /\ chunkRefs[chunks'[e].index].tag = "Active"
             /\ chunkRefs[chunks'[e].index].entity = e
       /\ \A e1, e2 \in DOMAIN chunks' :
             chunks'[e1].index = chunks'[e2].index => e1 = e2
      ]_vars

\* a chunk whose build task was dropped when it moved to Cleanup has been
\* reinstated and has got its mesh from a fresh build
C20_Witness ==
    /\ pc = "despawn_chunks"
    /\ \E e \in DOMAIN chunks :
          /\ chunks[e].cancelled
          /\ chunks[e].Mesh3d
          /\ chunks[e].index \in DOMAIN chunkRefs
          /\ chunkRefs[chunks[e].index].tag = "Active"
          /\ chunkRefs[chunks[e].index].entity = e

\* the chunks whose build result was integrated
Built == {e \in DOMAIN chunks : IsSome(chunks[e].ChunkCells)}

DependentsAfter(index) ==
    Range(Unwrap(chunks'[chunkRefs'[index].entity].AwaitingDeletion))

\* C22 -- Refinement dependents: after every recompute, every needed
\* identifier is in the dependents list of each of its strict prefixes
\* that has a ChunkRefs entry and is not needed.
C22_RefinementDependents ==
    [][RecomputeStep =>
          \A n \in needed' :
              \A p \in DOMAIN chunkRefs' \ needed' :
                  IsStrictPrefix(p, n) => n \in DependentsAfter(p)]_vars

\* a recompute has just registered a needed identifier with two obsolete
\* ancestors, the nearer of which was in Cleanup before
C22_Witness ==
    /\ pc = "generate_meshes"
    /\ \E n \in needed :
          \E p, q \in DOMAIN chunkRefs \ needed :
              /\ IsStrictPrefix(p, q) /\ IsStrictPrefix(q, n)
              /\ \A a \in {p, q} :
                    LET c == chunks[chunkRefs[a].entity]
                    IN  IsSome(c.AwaitingDeletion)
                        /\ n \in Range(Unwrap(c.AwaitingDeletion))

\* the needed identifiers that are strict prefixes of an identifier, in
\* the state after a step
NeededAbove(index) == {p \in needed' : IsStrictPrefix(p, index)}

\* C23 -- Coarsening dependents: after every recompute, the dependents list
\* of every obsolete identifier that has a strict prefix in the needed set
\* holds the longest such prefix and no other ancestor of the identifier.
C23_CoarseningDependents ==
    [][RecomputeStep =>
          \A o \in DOMAIN chunkRefs' \ needed' :
              NeededAbove(o) # {} =>
                  LET nearest == CHOOSE p \in NeededAbove(o) :
                                    \A q \in NeededAbove(o) : Len(q) <= Len(p)
                  IN  /\ nearest \in DependentsAfter(o)
                      /\ \A d \in DependentsAfter(o) :
                            IsStrictPrefix(d, o) => d = nearest]_vars

\* a recompute has just made a fine chunk wait for the coarse chunk two
\* levels above it
C23_Witness ==
    /\ pc = "generate_meshes"
    /\ \E o \in DOMAIN chunkRefs \ needed :
          LET c == chunks[chunkRefs[o].entity]
          IN  /\ IsSome(c.AwaitingDeletion)
              /\ \E d \in Range(Unwrap(c.AwaitingDeletion)) :
                    d \in needed /\ IsStrictPrefix(d, o) /\ Len(d) + 2 <= Len(o)

\* the identifiers of the new needed set that gate the destruction of an
\* obsolete identifier: the needed identifiers below it and the nearest
\* needed identifier above it
GatesOf(o) ==
    {n \in needed' : IsStrictPrefix(o, n)}
        \cup {p \in NeededAbove(o) : \A q \in NeededAbove(o) : Len(q) <= Len(p)}

\* C24 -- Cleanup refresh: a recompute that finds an identifier in Cleanup
\* and still obsolete leaves its entry as it is (Cleanup, same entity) and
\* replaces the dependents list of its chunk by the list of the new needed
\* set, each identifier once; with no needed identifier above or below it
\* the list is empty.
C24_CleanupRefresh ==
    [][RecomputeStep =>
          \A o \in DOMAIN chunkRefs :
              (chunkRefs[o].tag = "Cleanup" /\ o \notin needed') =>
                  /\ o \in DOMAIN chunkRefs'
                  /\ chunkRefs'[o] = chunkRefs[o]
                  /\ IsSome(chunks'[chunkRefs'[o].entity].AwaitingDeletion)
                  /\ DependentsAfter(o) = GatesOf(o)
                  /\ Len(Unwrap(chunks'[chunkRefs'[o].entity].AwaitingDeletion))
                        = Cardinality(GatesOf(o))]_vars

\* a recompute has just left an identifier and an identifier below it both
\* obsolete with empty dependents lists: the one that was in Cleanup
\* before, waiting for the other, has had its list replaced
C24_Witness ==
    /\ pc = "generate_meshes"
    /\ pov = camera
    /\ \E p, o \in DOMAIN chunkRefs \ needed :
          /\ IsStrictPrefix(p, o)
          /\ \A a \in {p, o} :
                /\ chunkRefs[a].tag = "Cleanup"
                /\ chunks[chunkRefs[a].entity].AwaitingDeletion = Some(<<>>)

\* the chunk entity of an identifier that has a ChunkRefs entry
ChunkOf(index) == chunks[chunkRefs[index].entity]

\* C25 -- Between the systems of the chain, hence at the end of every
\* cycle, every chunk in Cleanup carries AwaitingDeletion and neither
\* NeedsMesh nor GeneratingMesh, and every Active chunk carries no
\* AwaitingDeletion; no step starts a build for a chunk in Cleanup or
\* stores a build result for its identifier.
C25_CleanupFlags ==
    [][/\ \A index \in DOMAIN chunkRefs' :
             LET c == chunks'[chunkRefs'[index].entity]
             IN  IF chunkRefs'[index].tag = "Cleanup"
                 THEN /\ ~c.NeedsMesh
                      /\ c.GeneratingMesh = None
                      /\ IsSome(c.AwaitingDeletion)
                 ELSE c.AwaitingDeletion = None
       /\ \A index \in DOMAIN chunkRefs :
             chunkRefs[index].tag = "Cleanup" =>
                /\ index \notin StorageWritten
                /\ (index \in DOMAIN chunkRefs'
                       /\ chunkRefs'[index].tag = "Cleanup") =>
                      chunks'[chunkRefs'[index].entity].ChunkCells
                          = ChunkOf(index).ChunkCells
      ]_vars

\* a cycle ends with a chunk in Cleanup whose build was cancelled and which
\* still waits, beside an Active chunk that has its mesh
C25_Witness ==
    /\ pc = "calculate_povs"
    /\ \E index \in DOMAIN chunkRefs :
          /\ chunkRefs[index].tag = "Cleanup"
          /\ ChunkOf(index).cancelled
    /\ \E index \in DOMAIN chunkRefs :
          /\ chunkRefs[index].tag = "Active"
          /\ ChunkOf(index).Mesh3d

\* the chunk entities a step creates for an identifier
SpawnedFor(index) ==
    {e \in DOMAIN chunks' \ DOMAIN chunks : chunks'[e].index = index}

\* C26 -- Chunks are bound 1:1 to region identifiers: no two live chunk
\* entities have the same identifier, every ChunkRefs entry names a live
\* chunk entity whose index is the entry's key, and a recompute creates
\* exactly one chunk, Active and with NeedsMesh, for every needed
\* identifier that has no entry, and none for any other identifier.
C26_OneChunkPerIdentifier ==
    [][/\ \A e1, e2 \in DOMAIN chunks' :
             chunks'[e1].index = chunks'[e2].index => e1 = e2
       /\ \A index \in DOMAIN chunkRefs' :
             /\ chunkRefs'[index].entity \in DOMAIN chunks'
             /\ chunks'[chunkRefs'[index].entity].index = index
       /\ RecomputeStep =>
             /\ \A n \in needed' \ DOMAIN chunkRefs :
                   /\ Cardinality(SpawnedFor(n)) = 1
                   /\ n \in DOMAIN chunkRefs'
                   /\ chunkRefs'[n].tag = "Active"
                   /\ chunkRefs'[n].entity \in SpawnedFor(n)
                   /\ chunks'[chunkRefs'[n].entity].NeedsMesh
             /\ \A e \in DOMAIN chunks' \ DOMAIN chunks :
                   chunks'[e].index \in needed' \ DOMAIN chunkRefs
      ]_vars

\* a recompute has just created a chunk for an identifier, after an
\* earlier chunk was destroyed, while another identifier is in Cleanup
C26_Witness ==
    /\ pc = "generate_meshes"
    /\ Cardinality(DOMAIN chunks) < nextEntity - 1
    /\ \E index \in needed :
          /\ chunkRefs[index].entity = nextEntity - 1
          /\ ChunkOf(index).NeedsMesh
    /\ \E index \in DOMAIN chunkRefs : chunkRefs[index].tag = "Cleanup"

\* the chunk entities a step destroys, and their identifiers
Destroyed == DOMAIN chunks \ DOMAIN chunks'
DestroyedIndices == {chunks[e].index : e \in Destroyed}

ChildHeights(node) == {Unwrap(Child(node, i)).height : i \in ChildSlots(node)}

\* C29 -- After every insert that returns, every node that holds points
\* directly has height 0, and every node with children has height one
\* plus the largest height among its present children.
C29_Heights ==
    ~crashed =>
        \A node \in Nodes(octree) :
            /\ IsSome(node.points) => node.height = 0
            /\ ChildSlots(node) # {} =>
                  /\ node.height - 1 \in ChildHeights(node)
                  /\ \A h \in ChildHeights(node) : h <= node.height - 1

\* an insert has returned from a tree whose root has children of
\* different heights
C29_Witness ==
    /\ ~crashed
    /\ call.op = "insert"
    /\ Cardinality(ChildHeights(octree)) >= 2

\* the desired depth get_chunk_indices computes at a node for a target
DesiredAt(node, target) ==
    LET projected == [k \in 1..3 |->
                        Clamp(target[k], node.center[k] - node.bounds,
                              node.center[k] + node.bounds)]
    IN  DesiredHeight(DistanceSquared(projected, target), node, 0)

\* what the present children of a node contribute, in slot order
FromChildren(node, target) ==
    Concat([i \in 1..NumChildren |->
              IF IsSome(node.children[i])
              THEN get_chunk_indices(Unwrap(node.children[i]), target)
              ELSE <<>>])

\* a visited node contributes its own identifier alone when the desired
\* depth is at least its height, and otherwise what its present children
\* contribute, all of which are visited in turn
RECURSIVE TieBreakAt(_, _)
TieBreakAt(node, target) ==
    IF DesiredAt(node, target) >= node.height
    THEN get_chunk_indices(node, target) = <<node.octree_index>>
    ELSE /\ get_chunk_indices(node, target) = FromChildren(node, target)
         /\ \A i \in ChildSlots(node) :
               TieBreakAt(Unwrap(Child(node, i)), target)

\* C30 -- Tie-break of the resolver: every node get_chunk_indices visits
\* emits its own identifier and nothing below it when the desired depth is
\* at least its height (every node without children does), and recurses
\* into all present children only when the desired depth is less than its
\* height.
C30_TieBreak ==
    (~crashed /\ call.op = "get_chunk_indices") =>
        /\ call.result = get_chunk_indices(octree, call.arg)
        /\ TieBreakAt(octree, call.arg)

\* a cycle has ended with every build finished and taken: no chunk carries
\* NeedsMesh or GeneratingMesh
Settled ==
    /\ pc = "calculate_povs"
    /\ \A e \in DOMAIN chunks :
          ~chunks[e].NeedsMesh /\ chunks[e].GeneratingMesh = None

\* what is compared: the identifiers with an entry, the state of each entry
\* and whether its chunk has a mesh
Outcome ==
    [index \in DOMAIN chunkRefs |->
        [tag  |-> chunkRefs[index].tag,
         mesh |-> chunks[chunkRefs[index].entity].Mesh3d]]

\* the one outcome of the POV updates made so far: the identifiers the
\* latest recompute needed, each Active with a mesh
OutcomeOf(needed_indices) ==
    [index \in needed_indices |-> [tag |-> "Active", mesh |-> TRUE]]

\* C31 -- Order independence: once all builds have finished, the state
\* reached (which identifiers have entries, their Active/Cleanup state,
\* which chunks have meshes) is fixed by the POV updates made, whatever the
\* order in which the build tasks of distinct chunks completed and were
\* polled.
C31_OrderIndependence ==
    Settled => Outcome = OutcomeOf(needed)

\* C31 witness: all builds have finished after more than one recompute, in
\* the course of which chunks were destroyed, and at least two chunks that
\* remain were built by tasks of their own
C31_Witness ==
    /\ Settled
    /\ nextEntity > Cardinality(DOMAIN chunks) + 1
    /\ Cardinality({e \in DOMAIN chunks : IsSome(chunks[e].ChunkCells)}) >= 2

\* the step is a call of check_and_respawn_workers that found a finished
\* worker: the handles change, the channels and the count of panics do not
RespawnStep ==
    /\ workers' # workers
    /\ \E w \in DOMAIN workers : workers[w].state = "finished"
    /\ UNCHANGED <<sender, receiver, panics>>

\* C32 -- Worker respawn keeps the pool full: the manager holds NUM_WORKERS
\* worker handles before and after every call of
\* check_and_respawn_workers; the call puts one new worker, blocked in recv
\* on the request channel, in the place of each finished worker and keeps
\* each live worker as it is.
C32_PoolFull ==
    [][/\ Len(workers) = NUM_WORKERS
       /\ RespawnStep =>
             /\ Len(workers') = Len(workers)
             /\ \A w \in DOMAIN workers :
                   workers'[w] = IF workers[w].state = "finished"
                                 THEN WorkerIdle ELSE workers[w]]_vars

\* C32 witness: a worker has died and has been replaced while another
\* worker builds
C32_Witness ==
    /\ panics > 0
    /\ Len(workers) = NUM_WORKERS
    /\ \A w \in DOMAIN workers : workers[w].state # "finished"
    /\ \E w \in DOMAIN workers : workers[w].state = "build"

\* C33 -- Every identifier returned by get_chunk_indices names a realized
\* node: get_cells_for_index on the same octree returns Some for it, the
\* list returned is cells() of the node with that identifier, and the list
\* is not empty once the octree holds a point.
C33_ReturnedAreRealized ==
    (~crashed /\ call.op = "get_chunk_indices") =>
        \A i \in 1..Len(call.result) :
            LET found == get_cells_for_index(octree, call.result[i])
                node == NodeAt(octree, call.result[i])
            IN  /\ found.tag = "Some"
                /\ IsSome(node)
                /\ found.cells = cells(Unwrap(node))
                /\ nInserted >= 1 => found.cells # <<>>

\* C33 witness: a call on a split octree returned several identifiers, one
\* of them two levels down
C33_Witness ==
    /\ ~crashed
    /\ call.op = "get_chunk_indices"
    /\ Len(call.result) >= 2
    /\ \E i \in 1..Len(call.result) : Len(call.result[i]) = 2

\* C34 -- The panic branch of calculate_povs is unreachable: every
\* identifier of the obsolete set still has a ChunkRefs entry when the
\* obsolete loop looks it up, for the camera that is sampled next as for
\* every camera sampled before.
C34_TodoUnreachable ==
    /\ ~crashed
    /\ pc # "panicked"
    /\ pc = "calculate_povs" =>
          ~TodoReached(chunkRefs, nextEntity, NeededIndices(camera))

\* C34 witness: a recompute has looked up obsolete identifiers of both
\* kinds, leaving a Cleanup chunk with a mesh and one without
C34_Witness ==
    /\ ~crashed
    /\ pc = "generate_meshes"
    /\ \E i, j \in DOMAIN chunkRefs :
          /\ chunkRefs[i].tag = "Cleanup"
          /\ chunkRefs[j].tag = "Cleanup"
          /\ chunks[chunkRefs[i].entity].Mesh3d
          /\ ~chunks[chunkRefs[j].entity].Mesh3d
    /\ ObsoleteIndices(chunkRefs, needed) # {}

\* the dependents recorded on chunk entity e (none without AwaitingDeletion)
DependentsOf(e) ==
    IF IsSome(chunks[e].AwaitingDeletion)
    THEN Range(Unwrap(chunks[e].AwaitingDeletion)) ELSE {}

\* C35 -- At every point between one recompute and the next, every
\* identifier recorded in the dependents list of a Cleanup chunk has a
\* ChunkRefs entry in Active state (it is a needed identifier), so no
\* dependent is destroyed while a Cleanup chunk waits on it.
C35_DependentsActive ==
    \A e \in DOMAIN chunks :
        \A index \in DependentsOf(e) :
            /\ index \in needed
            /\ index \in DOMAIN chunkRefs
            /\ chunkRefs[index].tag = "Active"
            /\ chunkRefs[index].entity \in DOMAIN chunks

\* C35 witness: a cycle has ended (despawn_chunks has run) and a Cleanup
\* chunk still waits on two dependents, one of which has no mesh yet
C35_Witness ==
    /\ pc = "calculate_povs"
    /\ \E e \in DOMAIN chunks :
          /\ chunkRefs[chunks[e].index].tag = "Cleanup"
          /\ Cardinality(DependentsOf(e)) >= 2
          /\ \E index \in DependentsOf(e) :
                ~chunks[chunkRefs[index].entity].Mesh3d

\* C36 -- Insert conserves points: after any sequence of inserts that have
\* returned, cells() of the root holds each payload inserted so far exactly
\* once and nothing else; redistribution neither loses nor duplicates a
\* point.
C36_InsertConserves ==
    ~crashed =>
        /\ Len(cells(octree)) = nInserted
        /\ \A value \in 0..(nInserted - 1) : Count(cells(octree), value) = 1

\* C36 witness: an insert has returned after the root and a child of the
\* root have both redistributed their points
C36_Witness ==
    /\ ~crashed
    /\ call.op = "insert"
    /\ octree.points = None
    /\ \E node \in Nodes(octree) : node.depth = 1 /\ node.points = None
    /\ \E node \in Nodes(octree) :
          node.depth = 2 /\ IsSome(node.points) /\ Unwrap(node.points) # <<>>

\* the indices the manager can come to need
ManagerIndices ==
    UNION {Range(get_chunk_indices(BodyOctree, t)) : t \in ManagerTargets}

\* an active index has a mesh handle and no mesh entity
AwaitsEntity(idx) ==
    idx \in active_chunks /\ idx \in mesh_handles /\ idx \notin mesh_entities

\* C37 -- In the channel-based manager old chunk entities are retired only
\* when nothing is pending: no mesh entity is despawned in a step taken
\* while active_requests is not empty; and an active index that has a mesh
\* handle and no mesh entity after a call of process_chunk_backlog_system
\* is given its entity by a later call (unless it leaves active_chunks
\* first).
C37_RetireWhenNothingPending ==
    /\ [][active_requests # {} => mesh_entities \subseteq mesh_entities']_vars
    /\ \A idx \in ManagerIndices :
          AwaitsEntity(idx) ~>
              (idx \in mesh_entities \/ idx \notin active_chunks)

\* C38 -- In the channel-based manager cleanup_old_handles never removes
\* the mesh handle of an index that is in active_chunks: no step takes the
\* mesh handle of an active index away, however much time has passed since
\* the index dropped out of the needed set.
C38_ActiveKeepsHandle ==
    [][\A idx \in active_chunks \cap mesh_handles : idx \in mesh_handles']_vars

\* the step is a run of generate_meshes
GenerateStep == pc = "generate_meshes" /\ pc' = "poll_mesh_tasks"

\* C39 -- At the end of every cycle every chunk that carries GeneratingMesh
\* also carries NeedsMesh and has an Active ChunkRefs entry; and
\* generate_meshes leaves the task of every chunk that carries
\* GeneratingMesh as it is (it starts no second build), so that at most one
\* build is in flight per chunk.
C39_OneBuildPerChunk ==
    [][/\ DespawnStep =>
             \A e \in DOMAIN chunks' :
                 IsSome(chunks'[e].GeneratingMesh) =>
                     /\ chunks'[e].NeedsMesh
                     /\ chunks'[e].index \in DOMAIN chunkRefs'
                     /\ chunkRefs'[chunks'[e].index] = Active(e)
       /\ GenerateStep =>
             \A e \in DOMAIN chunks :
                 IsSome(chunks[e].GeneratingMesh) =>
                     chunks'[e].GeneratingMesh = chunks[e].GeneratingMesh]_vars

\* C39 witness: of the three chunks spawned so far one has been built and
\* two carry GeneratingMesh after a run of generate_meshes; one run starts
\* at most two builds, so one of the two carried its task into the run
C39_Witness ==
    /\ pc = "poll_mesh_tasks"
    /\ nextEntity = 4
    /\ \E e \in DOMAIN chunks : IsSome(chunks[e].ChunkCells)
    /\ \E e, f \in DOMAIN chunks :
          /\ e # f
          /\ IsSome(chunks[e].GeneratingMesh)
          /\ IsSome(chunks[f].GeneratingMesh)
          /\ chunks[e].NeedsMesh /\ chunks[f].NeedsMesh

\* the requests for an index that are on their way: in the request
\* channel, with a worker that builds, or answered and in the response
\* channel
Outstanding(idx) ==
    Cardinality({i \in 1..Len(sender) : sender[i] = idx})
      + Cardinality({w \in DOMAIN workers :
                        workers[w].state = "build" /\ workers[w].index = idx})
      + Cardinality({i \in 1..Len(receiver) : receiver[i].index = idx})

\* the requests a step has put into the request channel
Sent == SubSeq(sender', Len(sender) + 1, Len(sender'))

\* C40 -- In the channel-based manager update_pov sends at most one request
\* per index while one is outstanding: it sends no request for an index
\* that is in active_requests or has a mesh handle and none twice; a
\* request is with one worker at most and yields one response at most, so
\* that at no time more than one request or response for an index is on
\* its way, and that index is in active_requests; and every request sent
\* is received by a worker.
C40_OneRequestPerIndex ==
    /\ \A idx \in ManagerIndices :
          (\E i \in 1..Len(sender) : sender[i] = idx)
              ~> (\A i \in 1..Len(sender) : sender[i] # idx)
    /\ [][/\ manager_pov' # manager_pov =>
                /\ SubSeq(sender', 1, Len(sender)) = sender
                /\ \A i \in 1..Len(Sent) :
                      /\ Sent[i] \notin active_requests
                      /\ Sent[i] \notin mesh_handles
                      /\ \A j \in 1..Len(Sent) : Sent[j] = Sent[i] => j = i
          /\ \A idx \in ManagerIndices :
                /\ Outstanding(idx)' <= 1
                /\ Outstanding(idx)' = 1 => idx \in active_requests'
                /\ Outstanding(idx)' <= Outstanding(idx)
                      \/ manager_pov' # manager_pov]_vars

\* C40 witness: the needed set holds an index whose request a worker has
\* taken and not yet answered, an index requested for an earlier POV is
\* still outstanding, and a request waits in the channel
C40_Witness ==
    /\ \E idx \in active_chunks \cap active_requests :
          \E w \in DOMAIN workers :
              workers[w].state = "build" /\ workers[w].index = idx
    /\ active_requests \ active_chunks # {}
    /\ sender # <<>>

====
